---- MODULE Spec2Model ----
(***************************************************************************)
(* Model of scheme.py: the validated data model of work schedules          *)
(* (TimeInterval, WorkDay, Schedule, Vacation, Specialist).                *)
(*                                                                         *)
(* Every class is a pydantic (v1) BaseModel.  Constructing an instance     *)
(* runs, field by field in declaration order, the field's type validation  *)
(* and then the class validators registered for it; each validated value  *)
(* is stored in the dictionary `values`, which later validators read.  A   *)
(* ValueError, TypeError or AssertionError raised by a validator is        *)
(* recorded as an error of that field; any other exception leaves the      *)
(* constructor as it is.  The value a validator RETURNS replaces the       *)
(* field's value.  After the fields the root validators run, and the       *)
(* construction succeeds iff no error was recorded.                        *)
(*                                                                         *)
(* A state is one construction: the class, the raw input, and the result   *)
(* (pending until the constructor has run).                                *)
(***************************************************************************)
EXTENDS Integers, Sequences, FiniteSets, TLC

VARIABLES cls, input, result

vars == <<cls, input, result>>

(***************************************************************************)
(* Python values: a kind and a number.                                     *)
(*   None      the None object                                             *)
(*   omitted   the key is not in the input at all                          *)
(*   bad       a value the field's type rejects                            *)
(*   date      a datetime.date, v its ordinal                              *)
(*   time      a datetime.time, v its position in the day                  *)
(*   timedelta a datetime.timedelta, v its total seconds                   *)
(*   int, bool numbers                                                     *)
(***************************************************************************)
Val(kind, n) == [k |-> kind, v |-> n]

None == Val("None", 0)

Omitted == Val("omitted", 0)

Bad == Val("bad", 0)

SecondsPerDay == 86400

\* bool(x): None, zero numbers and the zero timedelta are false.
Truthy(x) ==
    CASE x.k = "None" -> FALSE
      [] x.k \in {"int", "bool", "timedelta"} -> x.v # 0
      [] OTHER -> TRUE

\* The outcome of evaluating an expression or a validator: either a value or
\* a raised exception.
Return(x) == [exc |-> "", val |-> x, ctx |-> <<>>]

Raise(e) == [exc |-> e, val |-> None, ctx |-> <<>>]

\* a - b as Python computes it: date - date is a timedelta; datetime.time
\* defines no subtraction and neither does None, so these raise TypeError.
Sub(a, b) ==
    IF a.k = "date" /\ b.k = "date"
    THEN Return(Val("timedelta", (a.v - b.v) * SecondsPerDay))
    ELSE IF a.k = "timedelta" /\ b.k = "timedelta"
    THEN Return(Val("timedelta", a.v - b.v))
    ELSE IF a.k = "int" /\ b.k = "int"
    THEN Return(Val("int", a.v - b.v))
    ELSE Raise("TypeError")

\* a + b as Python computes it: date + timedelta moves the date by the
\* timedelta's whole days (timedelta.days, a floor division).
Add(a, b) ==
    IF a.k = "date" /\ b.k = "timedelta"
    THEN Return(Val("date", a.v + (b.v \div SecondsPerDay)))
    ELSE IF a.k = "timedelta" /\ b.k = "timedelta"
    THEN Return(Val("timedelta", a.v + b.v))
    ELSE IF a.k = "int" /\ b.k = "int"
    THEN Return(Val("int", a.v + b.v))
    ELSE Raise("TypeError")

\* x <= 0 as Python computes it: only numbers compare with the int 0.
LeZero(x) ==
    IF x.k \in {"int", "bool"}
    THEN Return(Val("bool", IF x.v <= 0 THEN 1 ELSE 0))
    ELSE Raise("TypeError")

\* values.get(name): None when the key is absent.
Get(values, name) == IF name \in DOMAIN values THEN values[name] ELSE None

\* An error of the ValidationError: the field, pydantic's error type and the
\* error's context (the fields a selective or dependent error names).
Err(loc, type, ctx) == [loc |-> loc, type |-> type, ctx |-> ctx]

\* pydantic's error type of an exception a validator raised.
ErrType(exc) ==
    CASE exc = "TypeError" -> "type_error"
      [] exc = "ValueError" -> "value_error"
      [] OTHER -> exc

NoValues == [n \in {} |-> None]

Pending == [status |-> "pending", errors |-> {}, obj |-> NoValues]

\* BaseModel.__init__: the instance holds `values` unless an error was
\* recorded, and then ValidationError is raised and there is no instance.
Finish(values, errors) ==
    IF errors = {}
    THEN [status |-> "ok", errors |-> {}, obj |-> values]
    ELSE [status |-> "ValidationError", errors |-> errors, obj |-> NoValues]

\* An exception pydantic does not catch leaves the constructor.
Uncaught(exc) == [status |-> exc, errors |-> {}, obj |-> NoValues]

\* One field's step of validate_model: `r` is the outcome of the field's
\* validation; the value is stored, or the error is recorded.
Store(st, name, r) ==
    IF r.exc = ""
    THEN [st EXCEPT !.values = (name :> r.val) @@ st.values]
    ELSE [st EXCEPT !.errors = @ \cup {Err(name, ErrType(r.exc), r.ctx)}]

Start == [values |-> NoValues, errors |-> {}]

(***************************************************************************)
(* Vacation                                                                *)
(***************************************************************************)
MaxDate == 3

Dates == {Val("date", n) : n \in 0..MaxDate}

\* The cap of the integer day count, conint(le=35).
MaxVacationDays == 35

MaxIntDuration == 37

IntDurations == {Val("int", n) : n \in -2..MaxIntDuration}

MaxTimedeltaDays == 4

Timedeltas == {Val("timedelta", n * SecondsPerDay) : n \in -1..MaxTimedeltaDays}

VacationInputs ==
    [start_date : Dates \cup {Omitted, Bad},
     finish_date : Dates \cup {Omitted, None, Bad},
     vacation_duration : IntDurations \cup Timedeltas \cup {Omitted, None, Bad}]

\* A required field: the type's validation of the raw value.
Required(raw, kind) ==
    IF raw.k = kind THEN Return(raw)
    ELSE IF raw.k = "omitted" THEN Raise("value_error.missing")
    ELSE IF raw.k = "None" THEN Raise("type_error.none.not_allowed")
    ELSE Raise("type_error")

\* finish_date: date | None = None.
FinishDateField(raw) ==
    IF raw.k \in {"omitted", "None"} THEN Return(None)
    ELSE IF raw.k = "date" THEN Return(raw)
    ELSE Raise("type_error")

\* vacation_duration: timedelta | conint(strict=True, gt=0, le=35) | None.
\* The members of the union are tried in order and the first that accepts
\* the value wins.  timedelta comes first and accepts an int as a number of
\* seconds, so an int never reaches the constrained int.
StrictConInt(raw) ==
    IF raw.k # "int" THEN Raise("type_error.integer")
    ELSE IF ~(raw.v > 0) THEN Raise("value_error.number.not_gt")
    ELSE IF ~(raw.v <= MaxVacationDays) THEN Raise("value_error.number.not_le")
    ELSE Return(raw)

ParseDuration(raw) ==
    IF raw.k = "timedelta" THEN Return(raw)
    ELSE IF raw.k = "int" THEN Return(Val("timedelta", raw.v))
    ELSE Raise("type_error.duration")

VacationDurationField(raw) ==
    IF raw.k \in {"omitted", "None"} THEN Return(None)
    ELSE IF ParseDuration(raw).exc = "" THEN ParseDuration(raw)
    ELSE StrictConInt(raw)

\* `d is int` compares the value with the type object int: never true.
IsTheTypeInt(d) == FALSE

\* duration_processing with the operands of the subtraction exchanged.
duration_processing_swapped(d, values) ==
    IF (~("finish_date" \in DOMAIN values) \/ ~Truthy(values["finish_date"]))
       /\ ~Truthy(d)
    THEN [exc |-> "value_error.selective_assigning_error", val |-> None,
          ctx |-> <<"finish_date", "vacation_duration">>]
    ELSE IF "finish_date" \in DOMAIN values /\ "start_date" \in DOMAIN values
    THEN Sub(values["start_date"], values["finish_date"])
    ELSE Return(d)

\* duration_processing giving a supplied duration priority over finish_date,
\* as the class's docstring words it.
duration_processing_keeps_d(d, values) ==
    IF (~("finish_date" \in DOMAIN values) \/ ~Truthy(values["finish_date"]))
       /\ ~Truthy(d)
    THEN [exc |-> "value_error.selective_assigning_error", val |-> None,
          ctx |-> <<"finish_date", "vacation_duration">>]
    ELSE IF Truthy(d)
    THEN Return(d)
    ELSE IF "finish_date" \in DOMAIN values /\ "start_date" \in DOMAIN values
    THEN Sub(values["finish_date"], values["start_date"])
    ELSE Return(d)

\* duration_processing without the check that one of the two is assigned.
duration_processing_unchecked(d, values) ==
    IF "finish_date" \in DOMAIN values /\ "start_date" \in DOMAIN values
    THEN Sub(values["finish_date"], values["start_date"])
    ELSE Return(d)

\* @validator('vacation_duration', always=True)
duration_processing(d, values) ==
    IF (~("finish_date" \in DOMAIN values) \/ ~Truthy(values["finish_date"]))
       /\ ~Truthy(d)
    THEN [exc |-> "value_error.selective_assigning_error", val |-> None,
          ctx |-> <<"finish_date", "vacation_duration">>]
    ELSE IF "finish_date" \in DOMAIN values /\ "start_date" \in DOMAIN values
    THEN Sub(values["finish_date"], values["start_date"])
    ELSE IF IsTheTypeInt(d)
    THEN Return(Val("timedelta", d.v * SecondsPerDay))
    ELSE Return(d)

\* @root_validator
redefine_duration(values) ==
    IF "vacation_duration" \in DOMAIN values
       /\ Truthy(Get(values, "vacation_duration"))
       /\ (~("finish_date" \in DOMAIN values) \/ ~Truthy(Get(values, "finish_date")))
    THEN LET f_date == Add(Get(values, "start_date"), Get(values, "vacation_duration"))
         IN  IF f_date.exc = ""
             THEN [exc |-> "", val |-> ("finish_date" :> f_date.val) @@ values]
             ELSE [exc |-> f_date.exc, val |-> values]
    ELSE [exc |-> "", val |-> values]

\* The field's type validation, then its class validator on what it yields.
VacationDurationStep(raw, values) ==
    LET t == VacationDurationField(raw)
    IN  IF t.exc = "" THEN duration_processing(t.val, values) ELSE t

\* Vacation(**inp)
Vacation(inp) ==
    LET s1 == Store(Start, "start_date", Required(inp.start_date, "date"))
        s2 == Store(s1, "finish_date", FinishDateField(inp.finish_date))
        s3 == Store(s2, "vacation_duration",
                    VacationDurationStep(inp.vacation_duration, s2.values))
        r  == redefine_duration(s3.values)
        errors == IF r.exc = "" THEN s3.errors
                  ELSE s3.errors \cup {Err("__root__", ErrType(r.exc), <<>>)}
    IN  Finish(r.val, errors)

(***************************************************************************)
(* TimeInterval                                                            *)
(***************************************************************************)
\* Times of day are positions 0..MaxTime: 0 is time.min, MaxTime is time.max.
MaxTime == 3

Times == {Val("time", n) : n \in 0..MaxTime}

TimeIntervalInputs ==
    [start_time : Times \cup {Omitted, Bad},
     finish_time : Times \cup {Omitted, Bad}]

\* A field with a default: the default is stored as it is when the key is
\* omitted, and the raw value is validated otherwise.
Defaulted(raw, kind, default) ==
    IF raw.k = "omitted" THEN Return(default)
    ELSE IF raw.k = kind THEN Return(raw)
    ELSE IF raw.k = "None" THEN Raise("type_error.none.not_allowed")
    ELSE Raise("type_error")

\* @validator('finish_time'): values['start_time'] raises KeyError when
\* start_time failed its validation.
finish_must_be_later(ft, values) ==
    IF ~("start_time" \in DOMAIN values) THEN Raise("KeyError")
    ELSE LET diff == Sub(ft, values["start_time"])
             le == LeZero(diff.val)
         IN  IF diff.exc # "" THEN Raise(diff.exc)
             ELSE IF le.exc # "" THEN Raise(le.exc)
             ELSE IF Truthy(le.val) THEN Raise("ValueError")
             ELSE Return(ft)

\* The validator runs on a supplied finish_time that passed the type's
\* validation; it does not run on the default.
FinishTimeStep(raw, values) ==
    LET t == Defaulted(raw, "time", Val("time", MaxTime))
    IN  IF raw.k # "omitted" /\ t.exc = ""
        THEN finish_must_be_later(t.val, values)
        ELSE t

\* TimeInterval(**inp)
TimeInterval(inp) ==
    LET s1 == Store(Start, "start_time",
                    Defaulted(inp.start_time, "time", Val("time", 0)))
        ft == FinishTimeStep(inp.finish_time, s1.values)
        s2 == Store(s1, "finish_time", ft)
    IN  IF ft.exc = "KeyError" THEN Uncaught("KeyError")
        ELSE Finish(s2.values, s2.errors)

(***************************************************************************)
(* WorkDay                                                                 *)
(***************************************************************************)
\* A nested model is given as the dictionary of its fields; a list is given
\* as the sequence of its items.
Dict(kind, fields) == [k |-> kind, v |-> fields]

List(items) == [k |-> "list", v |-> items]

\* The intervals WorkDay inputs are built from: the whole day, a day from 1
\* on, one with both ends given, and one whose start_time is no time.
SampleIntervals ==
    {Dict("dict", [start_time |-> Omitted, finish_time |-> Omitted]),
     Dict("dict", [start_time |-> Val("time", 1), finish_time |-> Omitted]),
     Dict("dict", [start_time |-> Val("time", 0), finish_time |-> Val("time", 2)]),
     Dict("dict", [start_time |-> Bad, finish_time |-> Val("time", 2)])}

MaxIntervals == 2

SeqsUpTo(S, n) == UNION {[1..m -> S] : m \in 0..n}

\* calendar.MONDAY .. calendar.SUNDAY
Monday == 0

Sunday == 6

WeekdayInputs == {Val("int", Monday), Val("int", Sunday), Val("int", Sunday + 1), Omitted}

BoolInputs == {Val("bool", 0), Val("bool", 1)}

WorkDayInputs ==
    [weekday : WeekdayInputs,
     working_hours : {List(l) : l \in SeqsUpTo(SampleIntervals, MaxIntervals)}
                       \cup {Omitted, None, Bad},
     lunch_hours : SampleIntervals \cup {Omitted, None, Bad},
     is_absent : BoolInputs \cup {Omitted, Bad}]

\* weekday: Weekdays, the IntEnum of the seven days.
WeekdayField(raw) ==
    IF raw.k = "omitted" THEN Raise("value_error.missing")
    ELSE IF raw.k = "int" /\ raw.v \in Monday..Sunday THEN Return(raw)
    ELSE Raise("type_error.enum")

\* The outcome of validating a list, `rs` being the outcomes of constructing
\* its items: the list of what the items became, the first uncaught
\* exception, or an error.
Items(rs) ==
    IF \E i \in DOMAIN rs : rs[i].status \notin {"ok", "ValidationError"}
    THEN LET i == CHOOSE j \in DOMAIN rs :
                     /\ rs[j].status \notin {"ok", "ValidationError"}
                     /\ \A h \in 1..(j - 1) : rs[h].status \in {"ok", "ValidationError"}
         IN  Raise(rs[i].status)
    ELSE IF \E i \in DOMAIN rs : rs[i].status = "ValidationError"
    THEN Raise("value_error.items")
    ELSE Return(List([i \in DOMAIN rs |-> rs[i].obj]))

\* A field holding a nested model, `r` being the outcome of constructing it.
Nested(r) ==
    IF r.status = "ok" THEN Return(Dict("model", r.obj))
    ELSE IF r.status = "ValidationError" THEN Raise("value_error.nested")
    ELSE Raise(r.status)

\* working_hours: List[TimeInterval] | None, None when omitted.
WorkingHoursField(raw) ==
    IF raw.k \in {"omitted", "None"} THEN Return(None)
    ELSE IF raw.k = "list" THEN Items([i \in DOMAIN raw.v |-> TimeInterval(raw.v[i].v)])
    ELSE Raise("type_error.list")

\* lunch_hours: TimeInterval | None, None when omitted.
LunchHoursField(raw) ==
    IF raw.k \in {"omitted", "None"} THEN Return(None)
    ELSE IF raw.k = "dict" THEN Nested(TimeInterval(raw.v))
    ELSE Raise("type_error.dict")

\* @validator('is_absent'): there is no return statement, so the validator
\* returns None when it does not raise.
time_none_only_if_is_absent(v, values) ==
    IF /\ "working_hours" \in DOMAIN values
       /\ "lunch_hours" \in DOMAIN values
       /\ values["working_hours"].k = "None"
       /\ ~Truthy(v)
    THEN [exc |-> "value_error.dependent_assigning_error", val |-> None,
          ctx |-> <<"working_hours, lunch_hours", "is_absent">>]
    ELSE Return(None)

\* The validator runs on a supplied is_absent that passed the type's
\* validation; it does not run on the default False.
IsAbsentStep(raw, values) ==
    LET t == Defaulted(raw, "bool", Val("bool", 0))
    IN  IF raw.k # "omitted" /\ t.exc = ""
        THEN time_none_only_if_is_absent(t.val, values)
        ELSE t

UncaughtExceptions == {"KeyError"}

\* WorkDay(**inp)
WorkDay(inp) ==
    LET wh == WorkingHoursField(inp.working_hours)
        lh == LunchHoursField(inp.lunch_hours)
        s1 == Store(Start, "weekday", WeekdayField(inp.weekday))
        s2 == Store(s1, "working_hours", wh)
        s3 == Store(s2, "lunch_hours", lh)
        s4 == Store(s3, "is_absent", IsAbsentStep(inp.is_absent, s3.values))
    IN  IF wh.exc \in UncaughtExceptions THEN Uncaught(wh.exc)
        ELSE IF lh.exc \in UncaughtExceptions THEN Uncaught(lh.exc)
        ELSE Finish(s4.values, s4.errors)

(***************************************************************************)
(* Schedule                                                                *)
(***************************************************************************)
\* "There are only 7 days in a week!"
DaysInWeek == 7

MaxDays == 8

\* The days Schedule inputs are built from: a working day, a day marked
\* absent, and a day that is neither absent nor has working hours.
SampleWorkDays ==
    {Dict("dict", [weekday |-> Val("int", Monday),
                   working_hours |-> List(<<Dict("dict", [start_time |-> Omitted,
                                                          finish_time |-> Omitted])>>),
                   lunch_hours |-> Omitted, is_absent |-> Omitted]),
     Dict("dict", [weekday |-> Val("int", Sunday), working_hours |-> None,
                   lunch_hours |-> None, is_absent |-> Val("bool", 1)]),
     Dict("dict", [weekday |-> Val("int", Sunday), working_hours |-> None,
                   lunch_hours |-> None, is_absent |-> Val("bool", 0)])}

ScheduleInputs ==
    [id : {Val("int", 1), Omitted},
     working_days : {List(l) : l \in SeqsUpTo(SampleWorkDays, MaxDays)} \cup {Omitted}]

\* working_days: List[WorkDay]
WorkingDaysField(raw) ==
    IF raw.k = "omitted" THEN Raise("value_error.missing")
    ELSE IF raw.k = "list" THEN Items([i \in DOMAIN raw.v |-> WorkDay(raw.v[i].v)])
    ELSE Raise("type_error.list")

\* @validator('working_days'): there is no return statement, so the
\* validator returns None when it does not raise.
max_len_7_days(w) ==
    IF Len(w.v) > DaysInWeek THEN Raise("ValueError") ELSE Return(None)

WorkingDaysStep(raw) ==
    LET t == WorkingDaysField(raw)
    IN  IF t.exc = "" THEN max_len_7_days(t.val) ELSE t

\* Schedule(**inp)
Schedule(inp) ==
    LET wd == WorkingDaysStep(inp.working_days)
        s1 == Store(Start, "id", Required(inp.id, "int"))
        s2 == Store(s1, "working_days", wd)
    IN  IF wd.exc \in UncaughtExceptions THEN Uncaught(wd.exc)
        ELSE Finish(s2.values, s2.errors)

(***************************************************************************)
(* Specialist                                                              *)
(***************************************************************************)
\* A string is the sequence of its characters.  The characters: a lower
\* case and an upper case letter, a digit, a space, and "aleph", a letter
\* of a script without case (str.isalpha is true of it, and neither
\* str.upper nor str.lower changes it).
Alphabet == {"a", "B", "3", " ", "aleph"}

IsAlphaChar(c) == c \in {"a", "A", "b", "B", "aleph"}

IsCasedChar(c) == c \in {"a", "A", "b", "B"}

UpperChar(c) ==
    CASE c = "a" -> "A"
      [] c = "b" -> "B"
      [] OTHER -> c

LowerChar(c) ==
    CASE c = "A" -> "a"
      [] c = "B" -> "b"
      [] OTHER -> c

Str(chars) == [k |-> "str", v |-> chars]

\* str.isalpha(): at least one character, and all of them letters.
IsAlpha(chars) == Len(chars) > 0 /\ \A i \in DOMAIN chars : IsAlphaChar(chars[i])

\* str.title(): a character that follows a cased character is lowered, any
\* other character is capitalised.
RECURSIVE TitleFrom(_, _, _)
TitleFrom(chars, i, previous_is_cased) ==
    IF i > Len(chars) THEN <<>>
    ELSE <<IF previous_is_cased THEN LowerChar(chars[i]) ELSE UpperChar(chars[i])>>
         \o TitleFrom(chars, i + 1, IsCasedChar(chars[i]))

Title(chars) == TitleFrom(chars, 1, FALSE)

MaxNameLen == 2

Names == {Str(n) : n \in SeqsUpTo(Alphabet, MaxNameLen)}

\* The names the other two name fields hold while one runs through Names.
SampleNames == {Str(<<"B", "a">>), Str(<<"a", "3">>)}

MaxId == 1

Ids == {Val("int", n) : n \in -2..MaxId}

\* id, photo, description and vacation are given valid and are not modelled.
SpecialistInputs ==
    LET names ==
            [first_name : Names, last_name : SampleNames, patronymic : SampleNames]
            \cup [first_name : SampleNames, last_name : Names, patronymic : SampleNames]
            \cup [first_name : SampleNames, last_name : SampleNames, patronymic : Names]
    IN  {[first_name |-> n.first_name, last_name |-> n.last_name,
          patronymic |-> n.patronymic, department_id |-> d, position_id |-> p,
          schedule_id |-> s] : n \in names, d \in Ids, p \in Ids, s \in Ids}

\* must_have_only_letters without the normalisation to title case.
must_have_only_letters_as_given(v) ==
    IF ~IsAlpha(v.v) THEN Raise("ValueError") ELSE Return(v)

\* @validator('first_name', 'last_name', 'patronymic', pre=True)
must_have_only_letters(v) ==
    IF ~IsAlpha(v.v) THEN Raise("ValueError") ELSE Return(Str(Title(v.v)))

\* must_be_ge_zero rejecting a negative id instead of dropping it.
must_be_ge_zero_rejecting(v) ==
    IF v.v < 0 THEN Raise("ValueError") ELSE Return(v)

\* @validator('schedule_id', 'department_id', 'position_id')
must_be_ge_zero(v) ==
    IF v.v < 0 THEN Return(None) ELSE Return(v)

\* A name field: the pre validator, then the validation of str.
NameStep(raw) ==
    LET p == must_have_only_letters(raw)
    IN  IF p.exc = "" THEN Required(p.val, "str") ELSE p

\* An id field: the validation of int, then the validator.
IdStep(raw) ==
    LET t == Required(raw, "int")
    IN  IF t.exc = "" THEN must_be_ge_zero(t.val) ELSE t

\* Specialist(**inp), the fields in the order of their declaration.
Specialist(inp) ==
    LET s1 == Store(Start, "first_name", NameStep(inp.first_name))
        s2 == Store(s1, "last_name", NameStep(inp.last_name))
        s3 == Store(s2, "patronymic", NameStep(inp.patronymic))
        s4 == Store(s3, "department_id", IdStep(inp.department_id))
        s5 == Store(s4, "position_id", IdStep(inp.position_id))
        s6 == Store(s5, "schedule_id", IdStep(inp.schedule_id))
    IN  Finish(s6.values, s6.errors)

\* ' '.join(parts)
RECURSIVE Join(_)
Join(parts) ==
    IF Len(parts) = 0 THEN <<>>
    ELSE IF Len(parts) = 1 THEN parts[1]
    ELSE parts[1] \o <<" ">> \o Join(Tail(parts))

\* @property full_name
full_name(self) ==
    Join(<<self["last_name"].v, self["first_name"].v, self["patronymic"].v>>)

(***************************************************************************)
(* The constructions                                                       *)
(***************************************************************************)
Init ==
    /\ result = Pending
    /\ \/ cls = "Vacation" /\ input \in VacationInputs
       \/ cls = "TimeInterval" /\ input \in TimeIntervalInputs
       \/ cls = "WorkDay" /\ input \in WorkDayInputs
       \/ cls = "Schedule" /\ input \in ScheduleInputs
       \/ cls = "Specialist" /\ input \in SpecialistInputs

ConstructVacation ==
    /\ cls = "Vacation"
    /\ result = Pending
    /\ result' = Vacation(input)
    /\ UNCHANGED <<cls, input>>

ConstructTimeInterval ==
    /\ cls = "TimeInterval"
    /\ result = Pending
    /\ result' = TimeInterval(input)
    /\ UNCHANGED <<cls, input>>

ConstructWorkDay ==
    /\ cls = "WorkDay"
    /\ result = Pending
    /\ result' = WorkDay(input)
    /\ UNCHANGED <<cls, input>>

ConstructSchedule ==
    /\ cls = "Schedule"
    /\ result = Pending
    /\ result' = Schedule(input)
    /\ UNCHANGED <<cls, input>>

ConstructSpecialist ==
    /\ cls = "Specialist"
    /\ result = Pending
    /\ result' = Specialist(input)
    /\ UNCHANGED <<cls, input>>

Next ==
    \/ ConstructVacation
    \/ ConstructTimeInterval
    \/ ConstructWorkDay
    \/ ConstructSchedule
    \/ ConstructSpecialist

Spec == Init /\ [][Next]_vars

(***************************************************************************)
(* Properties of Vacation                                                  *)
(***************************************************************************)
Constructed(c) == cls = c /\ result.status = "ok"

Failed(c) == cls = c /\ result.status \notin {"pending", "ok"}

Ran(c) == cls = c /\ result.status # "pending"

Supplied(raw) == raw.k \notin {"omitted", "None"}

ErrorsAt(f) == {e \in result.errors : e.loc = f}

\* C1: every constructed Vacation has finish_date and vacation_duration
\* populated (not None), and finish_date = start_date + vacation_duration.
C1_PopulatedAndConsistent ==
    Constructed("Vacation") =>
        /\ {"start_date", "finish_date", "vacation_duration"} \subseteq DOMAIN result.obj
        /\ result.obj["finish_date"].k = "date"
        /\ result.obj["vacation_duration"].k = "timedelta"
        /\ Add(result.obj["start_date"], result.obj["vacation_duration"])
             = Return(result.obj["finish_date"])

\* A Vacation constructed with a finish_date that differs from start_date.
C1_Witness ==
    /\ Constructed("Vacation")
    /\ result.obj["finish_date"].v > result.obj["start_date"].v
    /\ result.obj["vacation_duration"].v # 0

\* C2 as claimed: a start_date D with an integer day count n, 0 < n <= 35,
\* and no finish_date constructs a Vacation whose finish_date is D + n days.
C2_DayCountDerivesFinish ==
    (/\ Ran("Vacation")
     /\ input.start_date.k = "date"
     /\ input.finish_date.k = "omitted"
     /\ input.vacation_duration.k = "int"
     /\ input.vacation_duration.v > 0
     /\ input.vacation_duration.v <= MaxVacationDays)
    => /\ result.status = "ok"
       /\ result.obj["finish_date"]
            = Val("date", input.start_date.v + input.vacation_duration.v)

C4_NeitherSuppliedFails ==
    (/\ Ran("Vacation")
     /\ ~Supplied(input.finish_date)
     /\ ~Supplied(input.vacation_duration))
    => /\ result.status = "ValidationError"
       /\ result.obj = NoValues
       /\ Err("vacation_duration", "value_error.selective_assigning_error",
              <<"finish_date", "vacation_duration">>) \in result.errors

\* A valid start_date alone has been tried.
C4_Witness ==
    /\ Failed("Vacation")
    /\ input.start_date.k = "date"
    /\ input.finish_date.k = "omitted"
    /\ input.vacation_duration.k = "omitted"

RangeErrors == {"value_error.number.not_gt", "value_error.number.not_le"}

\* C5 as claimed: with no finish_date, an integer vacation_duration outside
\* 0 < duration <= 35 fails the range check and there is no instance.
C5_OutOfRangeFailsRangeCheck ==
    (/\ Ran("Vacation")
     /\ input.start_date.k = "date"
     /\ input.finish_date.k = "omitted"
     /\ input.vacation_duration.k = "int"
     /\ ~(0 < input.vacation_duration.v
          /\ input.vacation_duration.v <= MaxVacationDays))
    => /\ result.status = "ValidationError"
       /\ \E e \in result.errors :
             e.loc = "vacation_duration" /\ e.type \in RangeErrors

(***************************************************************************)
(* Properties of TimeInterval, Schedule and WorkDay                        *)
(***************************************************************************)
\* C6 as claimed: with both times supplied, finish_time <= start_time fails
\* with an error of finish_time, and finish_time > start_time constructs an
\* instance holding the two supplied values.
C6_LaterFinishConstructs ==
    (/\ Ran("TimeInterval")
     /\ input.start_time.k = "time"
     /\ input.finish_time.k = "time")
    => IF input.finish_time.v <= input.start_time.v
       THEN /\ result.status = "ValidationError"
            /\ ErrorsAt("finish_time") # {}
       ELSE /\ result.status = "ok"
            /\ result.obj["start_time"] = input.start_time
            /\ result.obj["finish_time"] = input.finish_time

IsValidWorkDay(d) == WorkDay(d.v).status = "ok"

\* C7 as claimed: more than 7 WorkDay entries fail with the error of
\* max_len_7_days; at most 7 construct a Schedule whose working_days is the
\* list of those entries.
C7_UpToSevenDaysKept ==
    (/\ Ran("Schedule")
     /\ input.id.k = "int"
     /\ input.working_days.k = "list"
     /\ \A i \in DOMAIN input.working_days.v : IsValidWorkDay(input.working_days.v[i]))
    => IF Len(input.working_days.v) > DaysInWeek
       THEN /\ result.status = "ValidationError"
            /\ Err("working_days", "value_error", <<>>) \in result.errors
       ELSE /\ result.status = "ok"
            /\ result.obj["working_days"].k = "list"
            /\ Len(result.obj["working_days"].v) = Len(input.working_days.v)
            /\ \A i \in DOMAIN input.working_days.v :
                  result.obj["working_days"].v[i] = WorkDay(input.working_days.v[i].v).obj

\* C8 as claimed, the other fields being valid: is_absent false (given, or
\* left to its default) with working_hours None or omitted fails with the dependent-assigning error,
\* and a constructed WorkDay's is_absent is the supplied boolean.
C8_WorkingDayNeedsHours ==
    (/\ Ran("WorkDay")
     /\ WeekdayField(input.weekday).exc = ""
     /\ LunchHoursField(input.lunch_hours).exc = "") =>
        /\ (/\ input.is_absent \in {Omitted, Val("bool", 0)}
            /\ input.working_hours.k \in {"omitted", "None"})
           => /\ result.status = "ValidationError"
              /\ Err("is_absent", "value_error.dependent_assigning_error",
                     <<"working_hours, lunch_hours", "is_absent">>) \in result.errors
        /\ (result.status = "ok" /\ input.is_absent.k = "bool")
           => result.obj["is_absent"] = input.is_absent

(***************************************************************************)
(* Properties of Specialist                                                *)
(***************************************************************************)
ForeignKeys == {"schedule_id", "department_id", "position_id"}

NameFields == {"first_name", "last_name", "patronymic"}

\* C9: a negative schedule_id, department_id or position_id is no error of
\* the construction and is stored as None, a non-negative one is stored
\* unchanged, each whatever the other two are.
C9_NegativeIdBecomesNone ==
    Ran("Specialist") =>
        /\ \A f \in ForeignKeys : ErrorsAt(f) = {}
        /\ (\A n \in NameFields : IsAlpha(input[n].v)) => result.status = "ok"
        /\ result.status = "ok" =>
              \A f \in ForeignKeys :
                  result.obj[f] = IF input[f].v < 0 THEN None ELSE input[f]

\* One key negative, the two others kept.
C9_Witness ==
    /\ Constructed("Specialist")
    /\ input.department_id.v = -1 /\ result.obj["department_id"] = None
    /\ input.position_id.v = 0 /\ result.obj["position_id"] = Val("int", 0)
    /\ input.schedule_id.v = 1 /\ result.obj["schedule_id"] = Val("int", 1)

\* t is s with its first character in upper case and the rest in lower case.
FirstUpperRestLower(t, s) ==
    /\ Len(t) = Len(s)
    /\ \A i \in DOMAIN s : t[i] = IF i = 1 THEN UpperChar(s[i]) ELSE LowerChar(s[i])

\* t is s with each character that follows a cased character in lower case
\* and every other character in upper case.
TitleCased(t, s) ==
    /\ Len(t) = Len(s)
    /\ \A i \in DOMAIN s :
          t[i] = IF i > 1 /\ IsCasedChar(s[i - 1]) THEN LowerChar(s[i])
                 ELSE UpperChar(s[i])

JoinedBySpaces(obj) ==
    full_name(obj) = obj["last_name"].v \o <<" ">> \o obj["first_name"].v
                       \o <<" ">> \o obj["patronymic"].v

\* C10 as claimed: a name that is empty or holds a character that is no
\* letter fails with the error of must_have_only_letters; any other name is
\* accepted and stored with its first letter in upper case and the rest in
\* lower case, and full_name joins the stored names by single spaces.
C10_FirstUpperRestLower ==
    Ran("Specialist") =>
        \A f \in NameFields :
            IF ~IsAlpha(input[f].v)
            THEN /\ result.status = "ValidationError"
                 /\ Err(f, "value_error", <<>>) \in result.errors
            ELSE /\ ErrorsAt(f) = {}
                 /\ result.status = "ok" =>
                       /\ FirstUpperRestLower(result.obj[f].v, input[f].v)
                       /\ JoinedBySpaces(result.obj)

\* C10 amended: the stored name is the title-cased form as str.title forms
\* it: a letter that follows a cased letter is in lower case, every other
\* letter is in upper case.
C10_TitleCased ==
    Ran("Specialist") =>
        \A f \in NameFields :
            IF ~IsAlpha(input[f].v)
            THEN /\ result.status = "ValidationError"
                 /\ Err(f, "value_error", <<>>) \in result.errors
            ELSE /\ ErrorsAt(f) = {}
                 /\ result.status = "ok" =>
                       /\ TitleCased(result.obj[f].v, input[f].v)
                       /\ JoinedBySpaces(result.obj)

\* A name given in mixed case is stored title-cased and appears in full_name.
C10_Witness ==
    /\ Constructed("Specialist")
    /\ input.first_name = Str(<<"a", "B">>)
    /\ result.obj["first_name"] = Str(<<"A", "b">>)
    /\ full_name(result.obj) = <<"B", "a", " ", "A", "b", " ", "B", "a">>

====
